---- MODULE Spec2Model ----
(***************************************************************************)
(* The profile host of dynamic-component-loader: ProfileService holds the  *)
(* logged-in state in a BehaviorSubject, ProfileComponent subscribes to it *)
(* through takeUntil(destroySubject) and mergeMap(loadComponent), and      *)
(* AppService.forChild turns a dynamic import into a component created in  *)
(* the host's ViewContainerRef.                                            *)
(*                                                                         *)
(* login() and logout() are public methods of a root-provided service, so  *)
(* they are steps the environment may take at any time, also while a       *)
(* dynamic import is still pending.  Every pending import is settled in a  *)
(* step of its own (a promise reaction), in any order.                     *)
(*                                                                         *)
(* ProfileContainerComponent is the same pipe without takeUntil and        *)
(* without ngOnDestroy: its runs are the runs of this model in which       *)
(* ngOnDestroy is never taken.                                             *)
(***************************************************************************)
EXTENDS Naturals, Sequences, FiniteSets

VARIABLES
    phase,          \* lifecycle of ProfileComponent: constructed, initialised, destroyed
    isLoggedIn,     \* the value held by ProfileService.isLoggedIn (BehaviorSubject)
    sub,            \* the subscription made in ngOnInit: none, open, draining, completed, errored
    acts,           \* every call of loadComponent so far, in call order
    vcr,            \* the components in the host's ViewContainerRef, in order
    errorsReported, \* errors that reached the subscriber of ngOnInit's subscribe()
    calls,          \* number of login()/logout() calls so far
    lastCall,       \* the latest call of ProfileService: none, login, logout
    containerRef,   \* the components in AppComponent's container, in order
    pushes,         \* every call of AppComponent.push so far, in call order
    clears          \* number of AppComponent.clear() calls so far

\* The state of AppComponent.
appVars == <<containerRef, pushes, clears>>

\* The state of ProfileService and ProfileComponent.
profileVars ==
    <<phase, isLoggedIn, sub, acts, vcr, errorsReported, calls, lastCall>>

vars == <<profileVars, appVars>>

\* Bound on the number of login()/logout() calls of a run.
MaxCalls == 3

\* Bounds on the number of push() and of clear() calls of a run.
MaxPushes == 3
MaxClears == 2

\* The colours push() is called with.
Colors == {"red", "blue"}

GuestProfileComponent == "GuestProfileComponent"
ClientProfileComponent == "ClientProfileComponent"

\* ProfileService.guestProfile(): the loader whose import yields GuestProfileComponent.
guestProfile == GuestProfileComponent

\* ProfileService.clientProfile(): the loader whose import yields ClientProfileComponent.
clientProfile == ClientProfileComponent

\* The ids (positions in acts) of the loads that are neither resolved nor rejected.
Pending == {i \in 1..Len(acts) : acts[i].status = "pending"}

\* The inner subscriptions of mergeMap are subscribed as long as the outer
\* subscriber has neither errored nor completed.
InnerLive == sub \in {"open", "draining"}

\* loadComponent's ternary: isLoggedIn ? this.clientProfile() : this.guestProfile()
LoaderSwapped(v) == IF v THEN guestProfile ELSE clientProfile
LoaderFor(v) == IF v THEN clientProfile ELSE guestProfile

\* vcr.clear()
ClearKeeps(c) == c
ClearRemovesLast(c) == IF c = <<>> THEN c ELSE SubSeq(c, 1, Len(c) - 1)
Clear(c) == <<>>

\* The component reference that vcr.createComponent returns for activation i.
ComponentRef(comp, i) == [component |-> comp, by |-> i]

\* vcr.createComponent(componentFactory): the new component goes last.
CreateComponent(c, comp, i) == Append(c, ComponentRef(comp, i))

\* cfr.resolveComponentFactory(component): the factory of the component.
ResolveComponentFactory(comp) == [factoryOf |-> comp]

\* tap(f): f runs for its effect and its result is dropped; the value that
\* came in (the component factory) is the value that goes on.
Tap(value, result) == value

\* ProfileService.loadComponent(vcr, v): clears the container, then calls
\* forChild, which invokes the loader at once (from(hc.loadChildren())).
\* prev and pendingAtStart record the container and the pending loads as
\* they were when the call began; emitted holds what the returned observable
\* has emitted.
LoadComponent(v) ==
    /\ vcr' = Clear(vcr)
    /\ acts' = Append(acts, [value |-> v,
                             loader |-> LoaderFor(v),
                             status |-> "pending",
                             cause |-> "none",
                             emitted |-> <<>>,
                             prev |-> vcr,
                             pendingAtStart |-> Pending])

\* isLoggedIn.next(v) as seen by the pipe of ngOnInit: takeUntil lets the
\* value through while the destroySubject has not fired, and mergeMap
\* projects it with loadComponent without touching the loads in flight.
EmitDistinct(v) ==
    IF sub = "open" /\ v # isLoggedIn
    THEN LoadComponent(v)
    ELSE UNCHANGED <<acts, vcr>>
Emit(v) ==
    IF sub = "open"
    THEN LoadComponent(v)
    ELSE UNCHANGED <<acts, vcr>>

\* ProfileComponent.ngOnInit: subscribe; the BehaviorSubject replays its
\* current value synchronously.
ngOnInit ==
    /\ phase = "constructed"
    /\ phase' = "initialised"
    /\ sub' = "open"
    /\ LoadComponent(isLoggedIn)
    /\ UNCHANGED <<isLoggedIn, errorsReported, calls, lastCall, appVars>>

isLoggedIn_next(v) ==
    /\ calls < MaxCalls
    /\ calls' = calls + 1
    /\ isLoggedIn' = v
    /\ Emit(v)
    /\ UNCHANGED <<phase, sub, errorsReported, appVars>>

\* ProfileService.login
login == isLoggedIn_next(TRUE) /\ lastCall' = "login"

\* ProfileService.logout
logout == isLoggedIn_next(FALSE) /\ lastCall' = "logout"

\* mergeMap completes the outer subscriber once the source has completed
\* (takeUntil fired) and no inner subscription is active any more.
AfterInnerComplete(i) ==
    IF sub = "draining" /\ Pending = {i} THEN "completed" ELSE sub

\* The import of activation i resolves and the component is constructed:
\* map(resolveComponentFactory), tap(createComponent), then the inner
\* observable completes.  from(promise) drops the value when its subscriber
\* is closed.
ImportResolved(i) ==
    /\ i \in Pending
    /\ IF InnerLive
       THEN /\ vcr' = CreateComponent(vcr, acts[i].loader, i)
            /\ acts' = [acts EXCEPT
                  ![i].status = "created",
                  ![i].emitted = <<Tap(ResolveComponentFactory(acts[i].loader),
                                       ComponentRef(acts[i].loader, i))>>]
            /\ sub' = AfterInnerComplete(i)
       ELSE /\ acts' = [acts EXCEPT ![i].status = "discarded"]
            /\ UNCHANGED <<vcr, sub>>
    /\ UNCHANGED <<phase, isLoggedIn, errorsReported, calls, lastCall, appVars>>

\* An error of an inner observable goes through mergeMap to the subscriber of
\* subscribe(), which has no error handler: the error is reported to the host
\* once, and the whole subscription (all inner subscriptions with it) ends.
\* An error of a closed subscriber is dropped.
\* cause tells a rejected import ("import") from a throw in map/tap ("construct").
InnerError(i, cause) ==
    IF InnerLive
    THEN /\ acts' = [acts EXCEPT ![i].status = "failed", ![i].cause = cause]
         /\ sub' = "errored"
         /\ errorsReported' = errorsReported + 1
    ELSE /\ acts' = [acts EXCEPT ![i].status = "unseen", ![i].cause = cause]
         /\ UNCHANGED <<sub, errorsReported>>

\* The import of activation i rejects.
ImportRejected(i) ==
    /\ i \in Pending
    /\ InnerError(i, "import")
    /\ UNCHANGED <<phase, isLoggedIn, vcr, calls, lastCall, appVars>>

\* The import of activation i resolves, and resolveComponentFactory or
\* createComponent throws inside map/tap.
ConstructionThrowsLate(i) ==
    /\ i \in Pending
    /\ InnerLive
    /\ InnerError(i, "construct")
    /\ vcr' = CreateComponent(vcr, acts[i].loader, i)
    /\ UNCHANGED <<phase, isLoggedIn, calls, lastCall, appVars>>
ConstructionThrows(i) ==
    /\ i \in Pending
    /\ InnerLive
    /\ InnerError(i, "construct")
    /\ UNCHANGED <<phase, isLoggedIn, vcr, calls, lastCall, appVars>>

\* ProfileComponent.ngOnDestroy: destroySubject.next() makes takeUntil
\* complete the source of mergeMap; the inner subscriptions stay.
ngOnDestroy ==
    /\ phase = "initialised"
    /\ phase' = "destroyed"
    /\ sub' = IF sub = "open"
              THEN (IF Pending = {} THEN "completed" ELSE "draining")
              ELSE sub
    /\ UNCHANGED <<isLoggedIn, acts, vcr, errorsReported, calls, lastCall, appVars>>

Init ==
    /\ phase = "constructed"
    /\ isLoggedIn = FALSE
    /\ sub = "none"
    /\ acts = <<>>
    /\ vcr = <<>>
    /\ errorsReported = 0
    /\ calls = 0
    /\ lastCall = "none"
    /\ containerRef = <<>>
    /\ pushes = <<>>
    /\ clears = 0

Next ==
    \/ ngOnInit
    \/ login
    \/ logout
    \/ \E i \in 1..Len(acts) : ImportResolved(i)
    \/ \E i \in 1..Len(acts) : ImportRejected(i)
    \/ \E i \in 1..Len(acts) : ConstructionThrows(i)
    \/ ngOnDestroy

Spec == Init /\ [][Next]_vars

(***************************************************************************)
(* AppComponent: push(color) loads a coloured component into containerRef  *)
(* through forChild, each call with a subscription of its own, and clear() *)
(* empties containerRef.                                                   *)
(***************************************************************************)

\* The loads of push() that are neither resolved nor failed.
PendingPushes == {k \in 1..Len(pushes) : pushes[k].status = "pending"}

\* getComponent(backgroundColor, color): the component class made for the call.
getComponent(backgroundColor, color) ==
    [selector |-> "app-colored",
     backgroundColor |-> backgroundColor,
     color |-> color]

\* AppComponent.push(color): forChild invokes the loader at once and the
\* container is left alone.  clearsAtPush and settledAt record how many
\* clear() calls preceded the call and the settling of its load.
push(color) ==
    /\ Len(pushes) < MaxPushes
    /\ pushes' = Append(pushes, [color |-> color,
                                 status |-> "pending",
                                 clearsAtPush |-> clears,
                                 settledAt |-> 0])
    /\ UNCHANGED <<containerRef, clears, profileVars>>

\* The import of push k resolves: m.getComponent(color, 'white') is created
\* in containerRef by forChild's tap.
PushResolvedUnlessCleared(k) ==
    /\ k \in PendingPushes
    /\ pushes' = [pushes EXCEPT ![k].status = "resolved", ![k].settledAt = clears]
    /\ containerRef' =
          IF pushes[k].clearsAtPush = clears
          THEN CreateComponent(containerRef, getComponent(pushes[k].color, "white"), k)
          ELSE containerRef
    /\ UNCHANGED <<clears, profileVars>>
PushResolved(k) ==
    /\ k \in PendingPushes
    /\ pushes' = [pushes EXCEPT ![k].status = "resolved", ![k].settledAt = clears]
    /\ containerRef' =
          CreateComponent(containerRef, getComponent(pushes[k].color, "white"), k)
    /\ UNCHANGED <<clears, profileVars>>

\* The import of push k rejects, or resolveComponentFactory or
\* createComponent throws: the error ends the subscription of that call.
PushFailed(k) ==
    /\ k \in PendingPushes
    /\ pushes' = [pushes EXCEPT ![k].status = "failed", ![k].settledAt = clears]
    /\ UNCHANGED <<containerRef, clears, profileVars>>

\* AppComponent.clear
clear ==
    /\ clears < MaxClears
    /\ clears' = clears + 1
    /\ containerRef' = Clear(containerRef)
    /\ UNCHANGED <<pushes, profileVars>>

NextApp ==
    \/ \E color \in Colors : push(color)
    \/ \E k \in 1..Len(pushes) : PushResolved(k)
    \/ \E k \in 1..Len(pushes) : PushFailed(k)
    \/ clear

SpecApp == Init /\ [][NextApp]_vars

(***************************************************************************)
(* Vocabulary of the properties                                            *)
(***************************************************************************)

Ids == 1..Len(acts)

Range(s) == {s[i] : i \in 1..Len(s)}

\* Activation i was still waiting for its import when a later one began.
Superseded(i) == \E j \in Ids : i \in acts[j].pendingAtStart

\* No activation began while another was waiting for its import.
Sequential == \A i \in Ids : acts[i].pendingAtStart = {}

\* The attempts whose import rejected or whose construction threw.
FailedAttempts == {i \in Ids : acts[i].status \in {"failed", "unseen"}}

NoFailure == FailedAttempts = {}

\* This step settles the pending activation i as a failure.
Fails(i) ==
    /\ acts[i].status = "pending"
    /\ acts'[i].status \in {"failed", "unseen"}

\* This step is a call of login() (v = TRUE) or logout() (v = FALSE).
Called(v) == calls' = calls + 1 /\ isLoggedIn' = v

\* The unit the scenario expects for a state value.
ExpectedUnit(v) == IF v THEN ClientProfileComponent ELSE GuestProfileComponent

(***************************************************************************)
(* C1: the container holds at most one unit at any time.                   *)
(***************************************************************************)
C1_AtMostOneUnit == Len(vcr) <= 1

(***************************************************************************)
(* C2: an activation that was still waiting for its import when a later    *)
(* activation began never creates a component.                             *)
(***************************************************************************)
C2_SupersededCreatesNothing ==
    \A i \in Ids : Superseded(i) => acts[i].status # "created"

(***************************************************************************)
(* C3: once every load has resolved (none pending, none failed), the       *)
(* container shows exactly the unit of the latest state value.             *)
(***************************************************************************)
C3_LastRequestWins ==
    (phase = "initialised" /\ Pending = {} /\ NoFailure)
        => /\ Len(vcr) = 1
           /\ vcr[1].component = ExpectedUnit(isLoggedIn)

(***************************************************************************)
(* C4: emitting the value of the currently active or in-flight unit again  *)
(* changes nothing: no clear, no new load, no new unit.                    *)
(***************************************************************************)
C4_SameValueIsNoOp ==
    [][\A v \in BOOLEAN :
          (/\ Called(v)
           /\ Len(acts) > 0
           /\ acts[Len(acts)].value = v
           /\ acts[Len(acts)].status \in {"pending", "created"})
          => UNCHANGED <<vcr, acts>>]_vars

(***************************************************************************)
(* C5: when an activation fails, the container holds again what it held    *)
(* before that activation began.  Stated for an activation that overlapped *)
(* no other one.                                                           *)
(***************************************************************************)
C5_FailureKeepsPrevious ==
    [][\A i \in Ids :
          (Fails(i) /\ i = Len(acts) /\ acts[i].pendingAtStart = {})
          => vcr' = acts[i].prev]_vars

(***************************************************************************)
(* C5 as amended: a failing activation creates no component and leaves the *)
(* container as it is at that moment; what the container held when the     *)
(* activation began is not in it.                                          *)
(***************************************************************************)
C5_FailureCreatesNothing ==
    [][\A i \in Ids :
          Fails(i) => /\ vcr' = vcr
                      /\ Range(acts[i].prev) \cap Range(vcr') = {}]_vars

\* A unit was installed, the activation that replaced it failed, and the
\* container is empty.
C5_Witness ==
    \E i \in Ids : /\ acts[i].status = "failed"
                   /\ acts[i].prev # <<>>
                   /\ vcr = <<>>

(***************************************************************************)
(* C6: after a failure, every later state change still starts a new        *)
(* activation.                                                             *)
(***************************************************************************)
C6_FailureNeverStops ==
    [][\A v \in BOOLEAN :
          (Called(v) /\ phase = "initialised" /\ ~NoFailure)
          => Len(acts') = Len(acts) + 1]_vars

(***************************************************************************)
(* C7: every failed attempt is reported exactly once.                      *)
(***************************************************************************)
C7_OneReportPerFailure == errorsReported = Cardinality(FailedAttempts)

(***************************************************************************)
(* C8: the variant loaded for a value is ClientProfile for true and        *)
(* GuestProfile for false; with no click, initialisation loads             *)
(* GuestProfile; and as long as each load resolves before the next state   *)
(* change, the container is empty while a load is pending and holds        *)
(* exactly the unit of the current value, made by the latest activation,   *)
(* once it has resolved.                                                   *)
(***************************************************************************)
C8_Scenario ==
    /\ \A i \in Ids : acts[i].loader = ExpectedUnit(acts[i].value)
    /\ (calls = 0 /\ phase # "constructed")
          => /\ Len(acts) = 1
             /\ acts[1].loader = GuestProfileComponent
             /\ acts[1].status = "created"
                   => vcr = <<[component |-> GuestProfileComponent, by |-> 1]>>
    /\ (phase = "initialised" /\ Sequential /\ NoFailure)
          => /\ acts[Len(acts)].value = isLoggedIn
             /\ vcr = IF Pending = {}
                      THEN <<[component |-> ExpectedUnit(isLoggedIn),
                              by |-> Len(acts)]>>
                      ELSE <<>>

\* false, then login(), then logout(), each load resolved before the next
\* call: GuestProfile, ClientProfile and GuestProfile again.
C8_Witness ==
    /\ phase = "initialised" /\ Sequential /\ NoFailure
    /\ Len(acts) = 3
    /\ acts[1].value = FALSE /\ acts[2].value = TRUE /\ acts[3].value = FALSE
    /\ acts[2].prev = <<[component |-> GuestProfileComponent, by |-> 1]>>
    /\ acts[3].prev = <<[component |-> ClientProfileComponent, by |-> 2]>>
    /\ vcr = <<[component |-> GuestProfileComponent, by |-> 3]>>

(***************************************************************************)
(* C9: a unit that is installed when a new activation starts stays         *)
(* installed.                                                              *)
(***************************************************************************)
C9_NeverEmptyBetween ==
    [][(vcr # <<>> /\ Len(acts') > Len(acts)) => vcr' = vcr]_vars

(***************************************************************************)
(* C9 as amended: the step that starts an activation leaves the container  *)
(* empty, and only the resolution of a load puts a unit into it.           *)
(***************************************************************************)
C9_StartEmptiesContainer ==
    [][/\ Len(acts') > Len(acts) => vcr' = <<>>
       /\ Len(vcr') > Len(vcr)
             => \E i \in Pending : acts'[i].status = "created"]_vars

\* A unit was installed when an activation began; its load is pending and
\* the container is empty.
C9_Witness ==
    \E i \in Ids : /\ acts[i].status = "pending"
                   /\ acts[i].prev # <<>>
                   /\ vcr = <<>>

(***************************************************************************)
(* C10: after ngOnDestroy nothing clears the container, starts a load or   *)
(* installs a unit.                                                        *)
(***************************************************************************)
C10_NothingAfterDestroy ==
    [][phase = "destroyed" => (vcr' = vcr /\ Len(acts') = Len(acts))]_vars

(***************************************************************************)
(* C11: at most one activation is in flight at any time: among the loads   *)
(* that are neither resolved nor failed, at most one is still subscribed.  *)
(***************************************************************************)
C11_OneInFlight == InnerLive => Cardinality(Pending) <= 1

(***************************************************************************)
(* C12: every call of loadComponent empties the container, and the         *)
(* container stays empty until a load resolves: nothing that was in the    *)
(* container when some call began is in it, and it holds exactly the units *)
(* of the loads that resolved since the latest call, which are the latest  *)
(* activation and those that were pending when it began.                   *)
(***************************************************************************)
C12_ClearEmptiesCompletely ==
    /\ \A j \in Ids : Range(acts[j].prev) \cap Range(vcr) = {}
    /\ Ids # {} =>
          Range(vcr) =
             {[component |-> acts[i].loader, by |-> i] :
                 i \in {k \in acts[Len(acts)].pendingAtStart \cup {Len(acts)} :
                           acts[k].status = "created"}}

\* A call of loadComponent began with two units in the container, no load
\* has resolved since, and the container is empty.
C12_Witness ==
    /\ Ids # {}
    /\ Len(acts[Len(acts)].prev) = 2
    /\ \A i \in Ids : acts[i].status = "created" => i \notin
                         acts[Len(acts)].pendingAtStart \cup {Len(acts)}
    /\ vcr = <<>>

(***************************************************************************)
(* C13: the logged-in state starts as false and is true exactly when the   *)
(* latest call was login(); every call hands its value, changed or not, to *)
(* the subscriber while it is subscribed; and subscribing hands over the   *)
(* current value at once.  The subscriber is the pipe of ngOnInit, which   *)
(* answers every value it receives with a call of loadComponent.           *)
(***************************************************************************)
C13_Value == isLoggedIn = (lastCall = "login")

C13_Delivery ==
    /\ (calls' = calls + 1 /\ sub = "open")
          => /\ Len(acts') = Len(acts) + 1
             /\ acts'[Len(acts')].value = (lastCall' = "login")
    /\ (sub = "none" /\ sub' = "open")
          => /\ Len(acts') = Len(acts) + 1
             /\ acts'[Len(acts')].value = isLoggedIn

C13_BehaviorSubject == []C13_Value /\ [][C13_Delivery]_vars

\* login() before ngOnInit, so that subscribing delivers true, and login()
\* again after it, so that the unchanged value true is delivered again.
C13_Witness ==
    /\ Len(acts) >= 2
    /\ acts[1].value = TRUE /\ acts[2].value = TRUE
    /\ isLoggedIn /\ lastCall = "login" /\ calls = 2

(***************************************************************************)
(* C14: when the load of a subscribed forChild call resolves, exactly one  *)
(* component is created, after those already in the container, and the     *)
(* observable emits once, the created component instance; when the load    *)
(* fails, no component is created and nothing is emitted.                  *)
(***************************************************************************)
C14_ForChild ==
    [][\A i \in Pending :
          /\ acts'[i].status = "created"
                => /\ vcr' = Append(vcr, ComponentRef(acts[i].loader, i))
                   /\ acts'[i].emitted = <<ComponentRef(acts[i].loader, i)>>
          /\ Fails(i) => (vcr' = vcr /\ acts'[i].emitted = <<>>)]_vars

(***************************************************************************)
(* C15: push never removes a component and clear() removes all of them;    *)
(* the container holds exactly the components of the push calls whose load *)
(* resolved since the latest clear(), in the order they resolved in        *)
(* (whether or not other loads are pending); and a load that resolves adds *)
(* its component also when clear() was called after its push.              *)
(***************************************************************************)
C15_Count ==
    /\ Len(containerRef) =
          Cardinality({k \in 1..Len(pushes) :
                          /\ pushes[k].status = "resolved"
                          /\ pushes[k].settledAt = clears})
    /\ \A u \in Range(containerRef) :
          /\ pushes[u.by].status = "resolved"
          /\ pushes[u.by].settledAt = clears
          /\ u.component.backgroundColor = pushes[u.by].color

C15_Steps ==
    /\ Len(pushes') > Len(pushes) => containerRef' = containerRef
    /\ clears' = clears + 1 => containerRef' = <<>>
    /\ \A k \in PendingPushes :
          pushes'[k].status = "resolved"
             => /\ Len(containerRef') = Len(containerRef) + 1
                /\ SubSeq(containerRef', 1, Len(containerRef)) = containerRef
                /\ containerRef'[Len(containerRef')].by = k

C15_PushAndClear == []C15_Count /\ [][C15_Steps]_vars

\* A push whose load resolved after a later clear(): no load is pending and
\* its component is in the container.
C15_Witness ==
    /\ PendingPushes = {}
    /\ \E k \in 1..Len(pushes) :
          /\ pushes[k].status = "resolved"
          /\ pushes[k].clearsAtPush < pushes[k].settledAt
          /\ \E n \in 1..Len(containerRef) : containerRef[n].by = k

====
